---- MODULE Spec2Model ----
(* BloomBox API (src/main.py): the curated catalog, the facet listing, the   *)
(* box detail page, the rule-based recommender and the message composer.     *)
(*                                                                           *)
(* Texts the code folds, joins or interpolates are sequences of one-letter   *)
(* strings, so that str.lower(), ", ".join and f-strings are computed letter *)
(* by letter.  Literals the code only copies (URLs, names, descriptions,     *)
(* fixed sentences) are kept as one piece.  Optional[...] fields are sets    *)
(* with at most one element: {} is Python's None.                            *)
EXTENDS Integers, Sequences, FiniteSets, TLC

VARIABLES FEATURED_BOXES, call, resp, memo

vars == <<FEATURED_BOXES, call, resp, memo>>

\* ---------------------------------------------------------------- Python

None == {}

Some(v) == {v}

Val(o) == CHOOSE v \in o : TRUE

\* x or d, for an Optional[str] x: None and "" are both falsy
OrText(o, d) == IF o = None THEN d ELSE IF Val(o) = <<>> THEN d ELSE Val(o)

\* x or d, for an Optional[int] x: None and 0 are both falsy
OrInt(o, d) == IF o = None THEN d ELSE IF Val(o) = 0 THEN d ELSE Val(o)

\* truthiness of an Optional[str]
Truthy(o) == o # None /\ Val(o) # <<>>

\* "{x}" inside an f-string: None is rendered as the word None
Fmt(o) == IF o = None THEN <<"N","o","n","e">> ELSE Val(o)

LowerTable ==
    [c \in {"A","B","C","D","E","F","G","H","I","J","K","L","M",
            "N","O","P","Q","R","S","T","U","V","W","X","Y","Z"} |->
        CASE c = "A" -> "a" [] c = "B" -> "b" [] c = "C" -> "c" [] c = "D" -> "d"
          [] c = "E" -> "e" [] c = "F" -> "f" [] c = "G" -> "g" [] c = "H" -> "h"
          [] c = "I" -> "i" [] c = "J" -> "j" [] c = "K" -> "k" [] c = "L" -> "l"
          [] c = "M" -> "m" [] c = "N" -> "n" [] c = "O" -> "o" [] c = "P" -> "p"
          [] c = "Q" -> "q" [] c = "R" -> "r" [] c = "S" -> "s" [] c = "T" -> "t"
          [] c = "U" -> "u" [] c = "V" -> "v" [] c = "W" -> "w" [] c = "X" -> "x"
          [] c = "Y" -> "y" [] c = "Z" -> "z"]

\* str.lower()
Lower(t) == [i \in 1..Len(t) |-> IF t[i] \in DOMAIN LowerTable THEN LowerTable[t[i]] ELSE t[i]]

\* x in [...] for a list
InList(x, l) == \E i \in 1..Len(l) : l[i] = x

\* [f(e) for e in l] with f = str.lower
LowerAll(l) == [i \in 1..Len(l) |-> Lower(l[i])]

\* sep.join(bits)
RECURSIVE Join(_, _)
Join(sep, bits) ==
    IF bits = <<>> THEN <<>>
    ELSE IF Len(bits) = 1 THEN bits[1]
    ELSE bits[1] \o sep \o Join(sep, Tail(bits))

\* l[:n]
Take(l, n) == SubSeq(l, 1, IF Len(l) < n THEN Len(l) ELSE n)

\* ---------------------------------------------------------------- catalog

Catalog ==
    << [slug |-> "joy-box", name |-> "Joy Box", price |-> 1899,
        thumb |-> "https://images.unsplash.com/photo-1520975682031-6de9d3f7d89c?q=80&w=1200&auto=format&fit=crop",
        gradient |-> <<"#FFD6E0", "#E8DFF5">>,
        items |-> <<"Rose-scented candle", "Handwritten note", "Almond cookies", "Mini dried bouquet">>,
        mood |-> <<"h","a","p","p","y">>,
        occasions |-> << <<"b","i","r","t","h","d","a","y">>, <<"g","r","a","d","u","a","t","i","o","n">> >>,
        relationships |-> << <<"f","o","r"," ","h","e","r">>, <<"f","r","i","e","n","d","s">> >>,
        description |-> "A bright, cheerful curation to lift the spirits with rosy notes and sweet treats."],
       [slug |-> "calm-box", name |-> "Calm Box", price |-> 2199,
        thumb |-> "https://images.unsplash.com/photo-1519681393784-d120267933ba?q=80&w=1200&auto=format&fit=crop",
        gradient |-> <<"#B9F3E4", "#E8DFF5">>,
        items |-> <<"Lavender mist", "Chamomile tea", "Satin scrunchie", "Journaling pen">>,
        mood |-> <<"c","a","l","m">>,
        occasions |-> << <<"s","e","l","f","-","l","o","v","e">>, <<"a","n","n","i","v","e","r","s","a","r","y">> >>,
        relationships |-> << <<"f","o","r"," ","h","e","r">>, <<"p","a","r","e","n","t","s">> >>,
        description |-> "Soft, soothing essentials designed to unwind and slow down with gentle comfort."],
       [slug |-> "love-box", name |-> "Love Box", price |-> 2499,
        thumb |-> "https://images.unsplash.com/photo-1519682577862-22b62b24e493?q=80&w=1200&auto=format&fit=crop",
        gradient |-> <<"#FFD6E0", "#F4D9B3">>,
        items |-> <<"Silk ribbon", "Chocolate truffles", "Rose oil", "Polaroid frame">>,
        mood |-> <<"r","o","m","a","n","t","i","c">>,
        occasions |-> << <<"a","n","n","i","v","e","r","s","a","r","y">>, <<"b","i","r","t","h","d","a","y">> >>,
        relationships |-> << <<"f","o","r"," ","h","e","r">> >>,
        description |-> "Tender, rosy, love-forward pieces that feel like a handwritten poem."],
       [slug |-> "celebration-box", name |-> "Celebration Box", price |-> 2799,
        thumb |-> "https://images.unsplash.com/photo-1513151233558-d860c5398176?q=80&w=1200&auto=format&fit=crop",
        gradient |-> <<"#FFF7E9", "#F4D9B3">>,
        items |-> <<"Confetti popper", "Sparkle topper", "Vanilla cupcake mix", "Note card">>,
        mood |-> <<"f","e","s","t","i","v","e">>,
        occasions |-> << <<"g","r","a","d","u","a","t","i","o","n">>, <<"b","i","r","t","h","d","a","y">> >>,
        relationships |-> << <<"f","r","i","e","n","d","s">>, <<"p","a","r","e","n","t","s">>, <<"f","o","r"," ","h","i","m">> >>,
        description |-> "A party-in-a-box with shimmering accents and sweet celebration energy."] >>

\* ---------------------------------------------------------------- responses

Ok(body) == [status |-> 200, body |-> body]

HTTPException(status_code, detail) == [status |-> status_code, detail |-> detail]

Called(op, args) == [op |-> op, args |-> args]

\* ---------------------------------------------------------------- handlers

get_featured_boxes ==
    /\ call' = Called("get_featured_boxes", <<>>)
    /\ resp' = Ok([boxes |-> FEATURED_BOXES])
    /\ UNCHANGED FEATURED_BOXES

get_categories ==
    /\ call' = Called("get_categories", <<>>)
    /\ resp' = Ok([moods |-> <<"happy", "calm", "romantic", "festive", "sad", "self-love">>,
                   relationships |-> <<"for him", "for her", "parents", "friends">>,
                   occasions |-> <<"birthday", "anniversary", "graduation", "self-love">>])
    /\ UNCHANGED FEATURED_BOXES

CategoryTypes == { <<"m","o","o","d","s">>, <<"o","c","c","a","s","i","o","n","s">>, <<"r","e","l","a","t","i","o","n","s","h","i","p","s">> }

\* the inner function matches(b), with ctype and key already lower-cased
matches(ctype, key, b) ==
    IF ctype = <<"m","o","o","d","s">> THEN Lower(b.mood) = key
    ELSE IF ctype = <<"o","c","c","a","s","i","o","n","s">> THEN InList(key, LowerAll(b.occasions))
    ELSE IF ctype = <<"r","e","l","a","t","i","o","n","s","h","i","p","s">> THEN InList(key, LowerAll(b.relationships))
    ELSE FALSE

\* the type check done on the path parameter as typed
FoldType_unfolded(ctype) == ctype

\* ctype = ctype.lower(), the value the type check and matches() see
FoldType(ctype) == Lower(ctype)

\* the key compared as typed
FoldKey_unfolded(key) == key

\* key = key.lower()
FoldKey(key) == Lower(key)

get_category_listing(ctype0, key0) ==
    LET ctype == FoldType(ctype0)
        key == FoldKey(key0)
    IN  /\ call' = Called("get_category_listing", <<ctype0, key0>>)
        /\ resp' = IF ctype \notin CategoryTypes
                   THEN HTTPException(400, "Invalid category type")
                   ELSE Ok([category |-> [type |-> ctype, key |-> key],
                            results |-> SelectSeq(FEATURED_BOXES, LAMBDA b : matches(ctype, key, b))])
        /\ UNCHANGED FEATURED_BOXES

DecorativeUrls ==
    << "https://images.unsplash.com/photo-1519681393784-d120267933ba?q=80&w=1200&auto=format&fit=crop",
       "https://images.unsplash.com/photo-1519682577862-22b62b24e493?q=80&w=1200&auto=format&fit=crop" >>

\* the gallery opened with the first box's thumbnail whatever box was asked for
BoxDetail_first_thumb(b) ==
    [slug |-> b.slug, name |-> b.name, price |-> b.price, thumb |-> b.thumb,
     gradient |-> b.gradient, items |-> b.items, mood |-> b.mood,
     occasions |-> b.occasions, relationships |-> b.relationships,
     description |-> b.description,
     gallery |-> <<Catalog[1].thumb>> \o DecorativeUrls,
     ribbonOptions |-> <<"Blush Pink", "Sage Green", "Champagne">>,
     estimated_delivery |-> "3-5 days",
     rating |-> "4.9",
     reviews |-> 128]

\* {**b, "gallery": [...], ...}: a new dict, b itself is not touched
\* (the dash of "3-5 days" is an en dash in the source; the float 4.9 is kept as text)
BoxDetail(b) ==
    [slug |-> b.slug, name |-> b.name, price |-> b.price, thumb |-> b.thumb,
     gradient |-> b.gradient, items |-> b.items, mood |-> b.mood,
     occasions |-> b.occasions, relationships |-> b.relationships,
     description |-> b.description,
     gallery |-> <<b.thumb>> \o DecorativeUrls,
     ribbonOptions |-> <<"Blush Pink", "Sage Green", "Champagne">>,
     estimated_delivery |-> "3-5 days",
     rating |-> "4.9",
     reviews |-> 128]

\* b["gallery"] = ... written into the catalog entry itself
CatalogAfterDetail_in_place(boxes, i) == [boxes EXCEPT ![i] = BoxDetail(boxes[i])]

\* the catalog after get_box has served the box at position i
CatalogAfterDetail(boxes, i) == boxes

\* for b in FEATURED_BOXES: if b["slug"] == slug: return ...; the first hit wins
get_box(slug) ==
    LET hits == {i \in 1..Len(FEATURED_BOXES) : FEATURED_BOXES[i].slug = slug}
        first == CHOOSE i \in hits : \A j \in hits : i <= j
    IN  /\ call' = Called("get_box", <<slug>>)
        /\ resp' = IF hits = {} THEN HTTPException(404, "Box not found")
                   ELSE Ok(BoxDetail(FEATURED_BOXES[first]))
        /\ FEATURED_BOXES' = IF hits = {} THEN FEATURED_BOXES
                             ELSE CatalogAfterDetail(FEATURED_BOXES, first)

\* the dict literal built at the top of recommend_gifts
pool ==
    ( <<"h","a","p","p","y">> :> << [title |-> "Sunshine Candle", price |-> 699, tag |-> "cheer"],
                      [title |-> "Berry Truffles", price |-> 499, tag |-> "treat"],
                      [title |-> "Mini Bouquet", price |-> 799, tag |-> "flowers"] >> ) @@
    ( <<"c","a","l","m">> :> << [title |-> "Lavender Mist", price |-> 749, tag |-> "relax"],
                     [title |-> "Chamomile Tea Set", price |-> 549, tag |-> "soothe"],
                     [title |-> "Soft Eye Mask", price |-> 399, tag |-> "sleep"] >> ) @@
    ( <<"r","o","m","a","n","t","i","c">> :> << [title |-> "Rose Oil", price |-> 999, tag |-> "romance"],
                         [title |-> "Silk Ribbon Wrap", price |-> 299, tag |-> "wrap"],
                         [title |-> "Love Notes Set", price |-> 399, tag |-> "note"] >> ) @@
    ( <<"f","e","s","t","i","v","e">> :> << [title |-> "Confetti Popper", price |-> 299, tag |-> "party"],
                        [title |-> "Vanilla Cupcake Mix", price |-> 499, tag |-> "bake"],
                        [title |-> "Sparkle Topper", price |-> 349, tag |-> "sparkle"] >> ) @@
    ( <<"s","a","d">> :> << [title |-> "Warm Hug Mug", price |-> 599, tag |-> "comfort"],
                    [title |-> "Kind Notes", price |-> 349, tag |-> "uplift"],
                    [title |-> "Self-care Mask", price |-> 299, tag |-> "care"] >> ) @@
    ( <<"s","e","l","f","-","l","o","v","e">> :> << [title |-> "Jade Roller", price |-> 899, tag |-> "glow"],
                          [title |-> "Affirmation Cards", price |-> 499, tag |-> "affirm"],
                          [title |-> "Bath Salt", price |-> 399, tag |-> "soak"] >> )

\* mood = (req.mood or "").lower(), and the same for occasion and relationship
Folded(o) == Lower(OrText(o, <<>>))

\* pool.get(mood, []): the default key forgotten
Suggestions_no_default(mood) == IF mood \in DOMAIN pool THEN pool[mood] ELSE <<>>

\* pool.get(mood or "happy", []), mood already folded
Suggestions(mood) ==
    LET key == IF mood # <<>> THEN mood ELSE <<"h","a","p","p","y">>
    IN  IF key \in DOMAIN pool THEN pool[key] ELSE <<>>

DefaultMax == 10000000

\* the filtered list handed back in reverse order
BudgetFilter_reversed(suggestions, min_budget, max_budget) ==
    IF min_budget # None \/ max_budget # None
    THEN LET mn == OrInt(min_budget, 0)
             mx == OrInt(max_budget, DefaultMax)
             kept == SelectSeq(suggestions, LAMBDA s : mn <= s.price /\ s.price <= mx)
         IN  [i \in 1..Len(kept) |-> kept[Len(kept) + 1 - i]]
    ELSE suggestions

\* the "Filter by budget" block
BudgetFilter(suggestions, min_budget, max_budget) ==
    IF min_budget # None \/ max_budget # None
    THEN LET mn == OrInt(min_budget, 0)
             mx == OrInt(max_budget, DefaultMax)
         IN  SelectSeq(suggestions, LAMBDA s : mn <= s.price /\ s.price <= mx)
    ELSE suggestions

\* the bits listed occasion first
ContextBits_swapped(mood, occasion, relationship) ==
    SelectSeq(<<occasion, mood, relationship>>, LAMBDA b : b # <<>>)

\* the bits built from the lookup key (mood or "happy") instead of mood
ContextBits_default_key(mood, occasion, relationship) ==
    SelectSeq(<<IF mood # <<>> THEN mood ELSE <<"h","a","p","p","y">>, occasion, relationship>>,
              LAMBDA b : b # <<>>)

\* context_bits = [b for b in [mood, occasion, relationship] if b]
ContextBits(mood, occasion, relationship) ==
    SelectSeq(<<mood, occasion, relationship>>, LAMBDA b : b # <<>>)

\* context = ", ".join(context_bits) if context_bits else "thoughtful"
Context(context_bits) ==
    IF context_bits # <<>> THEN Join(<<","," ">>, context_bits) ELSE <<"t","h","o","u","g","h","t","f","u","l">>

ResultCap == 5

recommend_gifts(req) ==
    LET mood == Folded(req.mood)
        occasion == Folded(req.occasion)
        relationship == Folded(req.relationship)
        suggestions == BudgetFilter(Suggestions(mood), req.min_budget, req.max_budget)
    IN  /\ call' = Called("recommend_gifts", req)
        /\ resp' = Ok([context |-> Context(ContextBits(mood, occasion, relationship)),
                       query |-> req.query,
                       results |-> Take(suggestions, ResultCap)])
        /\ UNCHANGED FEATURED_BOXES

\* the dict literal built at the top of generate_message; each sentence is one piece
\* (the two "--" are em dashes in the source)
tones ==
    ( <<"w","a","r","m">> :> <<"Wrapping you in a soft hug and a little sparkle today.">> ) @@
    ( <<"r","o","m","a","n","t","i","c">> :> <<"My heart chose this just for you--gentle, rosy and full of love.">> ) @@
    ( <<"p","l","a","y","f","u","l">> :> <<"A pocketful of confetti and a sprinkle of mischief--just for you!">> ) @@
    ( <<"g","r","a","t","e","f","u","l">> :> <<"Thank you for being the calm in my chaos and the glow in my days.">> ) @@
    ( <<"p","o","e","t","i","c">> :> <<"Like petals on quiet water, may this bring you small, luminous joy.">> )

NL == <<"\n">>

\* (req.style or "warm").lower()
StyleKey(style) == Lower(OrText(style, <<"w","a","r","m">>))

\* tones.get(..., ""): no sentence for a style that is not a key
StyleLine_no_fallback(style) ==
    LET key == StyleKey(style)
    IN  IF key \in DOMAIN tones THEN tones[key] ELSE <<>>

\* tones.get(..., tones["warm"])
StyleLine(style) ==
    LET key == StyleKey(style)
    IN  IF key \in DOMAIN tones THEN tones[key] ELSE tones[<<"w","a","r","m">>]

ToLine(to) == IF Truthy(to) THEN <<"D","e","a","r"," ">> \o Val(to) \o <<",">> ELSE <<"H","e","y"," ","l","o","v","e",",">>

MoodLine(occasion, mood) ==
    IF Truthy(occasion) \/ Truthy(mood)
    THEN <<" ","F","o","r"," ","y","o","u","r"," ">> \o Fmt(occasion) \o <<" ","I"," ","w","i","s","h","e","d"," ","f","o","r"," ">> \o Fmt(mood) \o <<" ","m","o","m","e","n","t","s",".">>
    ELSE <<>>

FromLine(from_name) ==
    IF Truthy(from_name)
    THEN NL \o NL \o <<"W","i","t","h"," ","l","o","v","e",",">> \o NL \o Val(from_name)
    ELSE NL \o NL \o <<"W","i","t","h"," ","l","o","v","e",",">> \o NL \o <<"B","l","o","o","m","B","o","x">>

\* message = f"{to_line}\\n{style_line}{mood_line}{from_line}"
Message(req) ==
    ToLine(req.to) \o NL \o StyleLine(req.style)
        \o MoodLine(req.occasion, req.mood) \o FromLine(req.from_name)

generate_message(req) ==
    /\ call' = Called("generate_message", req)
    /\ resp' = Ok([message |-> Message(req)])
    /\ UNCHANGED FEATURED_BOXES

\* ---------------------------------------------------------------- requests

Startup == Called("startup", <<>>)

NoResponse == [status |-> 0, detail |-> "no request served yet"]

NoMemo == [call |-> Startup, resp |-> NoResponse]

Init ==
    /\ FEATURED_BOXES = Catalog
    /\ call = Startup
    /\ resp = NoResponse
    /\ memo = NoMemo

\* path parameters of /api/category/{ctype}/{key}
TypeInputs ==
    { <<"m","o","o","d","s">>, <<"M","o","o","d","s">>, <<"o","c","c","a","s","i","o","n","s">>, <<"O","C","C","A","S","I","O","N","S">>, <<"r","e","l","a","t","i","o","n","s","h","i","p","s">>,
      <<"R","e","l","a","t","i","o","n","s","h","i","p","s">>, <<"c","o","l","o","r","s">>, <<"m","o","o","d">>, <<>> }

KeyInputs ==
    { <<"h","a","p","p","y">>, <<"H","a","p","p","y">>, <<"C","A","L","M">>, <<"b","i","r","t","h","d","a","y">>, <<"B","i","r","t","h","d","a","y">>, <<"s","e","l","f","-","l","o","v","e">>,
      <<"f","o","r"," ","h","e","r">>, <<"F","o","r"," ","H","e","r">>, <<"f","r","i","e","n","d","s">>, <<"f","o","r"," ","h","i","m">>, <<"r","e","d">> }

\* path parameter of /api/box/{slug}
SlugInputs ==
    { "joy-box", "calm-box", "love-box", "celebration-box", "nonexistent", "Joy-Box", "joy" }

MinBudgetInputs == { None, Some(0), Some(499) }

MaxBudgetInputs == { None, Some(0), Some(699) }

RecommendInputs ==
    [ query : { None, Some("gift for book lover") },
      mood : { None, Some(<<>>), Some(<<"H","a","p","p","y">>), Some(<<"C","A","L","M">>),
               Some(<<"f","u","r","i","o","u","s">>), Some(<<"T","h","o","u","g","h","t","f","u","l">>) },
      relationship : { None, Some(<<"F","r","i","e","n","d","s">>) },
      occasion : { None, Some(<<"B","i","r","t","h","d","a","y">>) },
      min_budget : MinBudgetInputs,
      max_budget : MaxBudgetInputs ]

StyleInputs ==
    { None, Some(<<>>), Some(<<"w","a","r","m">>), Some(<<"W","a","r","m">>), Some(<<"r","o","m","a","n","t","i","c">>),
      Some(<<"P","L","A","Y","F","U","L">>), Some(<<"g","r","a","t","e","f","u","l">>), Some(<<"P","o","e","t","i","c">>), Some(<<"u","n","k","n","o","w","n","-","s","t","y","l","e">>) }

MessageInputs ==
    [ to : { None, Some(<<>>), Some(<<"M","i","a">>) },
      from_name : { None, Some(<<"S","a","m">>) },
      mood : { None, Some(<<"h","a","p","p","y">>) },
      occasion : { None, Some(<<"b","i","r","t","h","d","a","y">>) },
      style : StyleInputs ]

\* ---------------------------------------------------------------- service

GetFeaturedBoxes == get_featured_boxes /\ UNCHANGED memo

GetCategories == get_categories /\ UNCHANGED memo

GetCategoryListing == \E ctype \in TypeInputs, key \in KeyInputs :
    get_category_listing(ctype, key) /\ UNCHANGED memo

GetBox == \E slug \in SlugInputs : get_box(slug) /\ UNCHANGED memo

RecommendGifts == \E req \in RecommendInputs : recommend_gifts(req) /\ UNCHANGED memo

GenerateMessage == \E req \in MessageInputs : generate_message(req) /\ UNCHANGED memo

Next ==
    \/ GetFeaturedBoxes
    \/ GetCategories
    \/ GetCategoryListing
    \/ GetBox
    \/ RecommendGifts
    \/ GenerateMessage

Spec == Init /\ [][Next]_vars

\* ---------------------------------------------------------------- repeated calls

\* memo keeps one earlier request together with the answer it got
Remember == memo' = memo \/ memo' = [call |-> call', resp |-> resp']

RepeatTypes == { <<"m","o","o","d","s">>, <<"O","c","c","a","s","i","o","n","s">>, <<"c","o","l","o","r","s">> }

RepeatKeys == { <<"H","a","p","p","y">>, <<"b","i","r","t","h","d","a","y">>, <<"r","e","d">> }

RepeatSlugs == { "joy-box", "love-box", "nonexistent" }

RepeatRecommend ==
    [ query : { None },
      mood : { None, Some(<<"C","A","L","M">>) },
      relationship : { None },
      occasion : { None, Some(<<"B","i","r","t","h","d","a","y">>) },
      min_budget : { None },
      max_budget : { None, Some(699) } ]

RepeatMessages ==
    [ to : { None, Some(<<"M","i","a">>) },
      from_name : { None },
      mood : { None, Some(<<"h","a","p","p","y">>) },
      occasion : { None },
      style : { None, Some(<<"u","n","k","n","o","w","n","-","s","t","y","l","e">>) } ]

RepeatGetFeaturedBoxes == get_featured_boxes /\ Remember

RepeatGetCategories == get_categories /\ Remember

RepeatGetCategoryListing == \E ctype \in RepeatTypes, key \in RepeatKeys :
    get_category_listing(ctype, key) /\ Remember

RepeatGetBox == \E slug \in RepeatSlugs : get_box(slug) /\ Remember

RepeatRecommendGifts == \E req \in RepeatRecommend : recommend_gifts(req) /\ Remember

RepeatGenerateMessage == \E req \in RepeatMessages : generate_message(req) /\ Remember

NextRepeat ==
    \/ RepeatGetFeaturedBoxes
    \/ RepeatGetCategories
    \/ RepeatGetCategoryListing
    \/ RepeatGetBox
    \/ RepeatRecommendGifts
    \/ RepeatGenerateMessage

SpecRepeat == Init /\ [][NextRepeat]_vars

\* ---------------------------------------------------------------- properties

Served(op) == call.op = op

Thoughtful == <<"t","h","o","u","g","h","t","f","u","l">>

HappyKey == <<"h","a","p","p","y">>

\* the first n entries of l, written out entry by entry
Prefix(l, n) == [i \in 1..(IF Len(l) < n THEN Len(l) ELSE n) |-> l[i]]

Position(l, x) == CHOOSE i \in 1..Len(l) : l[i] = x

Members(l) == {l[i] : i \in 1..Len(l)}

\* res lists entries of l, each at most once, in the order l has them
OrderedWithin(res, l) ==
    /\ \A i \in 1..Len(res) : res[i] \in Members(l)
    /\ \A i, j \in 1..Len(res) : i < j => Position(l, res[i]) < Position(l, res[j])

Contains(t, s) == \E i \in 0..(Len(t) - Len(s)) : SubSeq(t, i + 1, i + Len(s)) = s

\* the text of an optional field, case-folded; absent counts as empty
FoldedText(o) == Lower(IF o = None THEN <<>> ELSE Val(o))

\* the pool the spec selects for an intent
SelectedPool(req) ==
    LET m == FoldedText(req.mood)
    IN  IF m = <<>> THEN pool[HappyKey]
        ELSE IF m \in DOMAIN pool THEN pool[m]
        ELSE <<>>

NoBudget(req) == req.min_budget = None /\ req.max_budget = None

\* a ", b" appended to a, with empty sides skipped
WithSep(a, b) == IF a = <<>> THEN b ELSE IF b = <<>> THEN a ELSE a \o <<",", " ">> \o b

ExpectedContext(m, o, r) ==
    LET joined == WithSep(WithSep(m, o), r)
    IN  IF joined = <<>> THEN Thoughtful ELSE joined

\* C1: with at least one of minBudget/maxBudget supplied (non-negative, 0
\* included, max >= min), the results are exactly the leading candidates of
\* the selected pool priced within [minBudget or 0, maxBudget or unbounded];
\* with neither supplied no candidate is removed.
C1_BudgetRange ==
    Served("recommend_gifts") =>
        LET req == call.args
            mn == req.min_budget
            mx == req.max_budget
            wellFormed == /\ mn # None => Val(mn) >= 0
                          /\ mx # None => Val(mx) >= 0
                          /\ (mn # None /\ mx # None) => Val(mx) >= Val(mn)
            lo == IF mn = None THEN 0 ELSE Val(mn)
            InRange(p) == lo <= p /\ (mx = None \/ p <= Val(mx))
            expected == IF NoBudget(req) THEN SelectedPool(req)
                        ELSE SelectSeq(SelectedPool(req), LAMBDA s : InRange(s.price))
        IN  wellFormed => resp.body.results = Prefix(expected, 5)

\* the facet of box b, case-folded, holds the case-folded key k
FacetHolds(t, k, b) ==
    \/ t = <<"m","o","o","d","s">> /\ Lower(b.mood) = k
    \/ t = <<"o","c","c","a","s","i","o","n","s">> /\ k \in {Lower(x) : x \in Members(b.occasions)}
    \/ t = <<"r","e","l","a","t","i","o","n","s","h","i","p","s">> /\ k \in {Lower(x) : x \in Members(b.relationships)}

ValidType(t) == Lower(t) \in { <<"m","o","o","d","s">>, <<"o","c","c","a","s","i","o","n","s">>, <<"r","e","l","a","t","i","o","n","s","h","i","p","s">> }

\* C2: for a valid facet type in any letter case and any key, the listing
\* holds exactly the catalog boxes whose folded facet matches the folded key,
\* each once, in catalog order; an empty listing is a normal answer.
C2_FacetListing ==
    (Served("get_category_listing") /\ ValidType(call.args[1])) =>
        /\ resp.status = 200
        /\ LET t == Lower(call.args[1])
               k == Lower(call.args[2])
               res == resp.body.results
           IN  /\ OrderedWithin(res, FEATURED_BOXES)
               /\ \A b \in Members(FEATURED_BOXES) : b \in Members(res) <=> FacetHolds(t, k, b)

C2_Witness ==
    /\ Served("get_category_listing")
    /\ call.args[2] # Lower(call.args[2])
    /\ resp.status = 200
    /\ Len(resp.body.results) >= 2
    /\ Len(resp.body.results) < Len(FEATURED_BOXES)

\* C3: the listing fails with 400 exactly when the folded type is not one of
\* moods, occasions, relationships; a failure carries no result list, and an
\* accepted type never fails whatever the key.
C3_InvalidFacetType ==
    Served("get_category_listing") =>
        /\ resp.status = 400 <=> ~ValidType(call.args[1])
        /\ resp.status = 400 => "body" \notin DOMAIN resp
        /\ ValidType(call.args[1]) => (resp.status = 200 /\ "results" \in DOMAIN resp.body)

C3_Witness ==
    /\ Served("get_category_listing")
    /\ call.args[1] = <<"c","o","l","o","r","s">>
    /\ resp.status = 400

\* C4: the detail is served exactly when some catalog box has that very slug;
\* it carries every field of the box unchanged and a gallery of three URLs,
\* the box's own thumbnail first and the same two fixed URLs after it;
\* otherwise the answer is 404 with no detail.
C4_BoxDetail ==
    Served("get_box") =>
        LET hits == {b \in Members(FEATURED_BOXES) : b.slug = call.args[1]}
        IN  /\ resp.status = 200 <=> hits # {}
            /\ hits = {} => (resp.status = 404 /\ "body" \notin DOMAIN resp)
            /\ hits # {} =>
                  \E b \in hits :
                      /\ \A f \in DOMAIN b : resp.body[f] = b[f]
                      /\ Len(resp.body.gallery) = 3
                      /\ resp.body.gallery[1] = b.thumb
                      /\ resp.body.gallery[2] = DecorativeUrls[1]
                      /\ resp.body.gallery[3] = DecorativeUrls[2]

C4_Witness ==
    /\ Served("get_box")
    /\ call.args[1] = "love-box"
    /\ resp.status = 200
    /\ resp.body.gallery[1] # Catalog[1].thumb

\* C5: the candidates come from the pool of the case-folded mood: the happy
\* pool when mood is absent or empty, the pool of the folded mood when that is
\* a key, and no candidates, without an error, for any other mood.
C5_MoodPool ==
    Served("recommend_gifts") =>
        LET req == call.args
            m == FoldedText(req.mood)
            res == resp.body.results
        IN  /\ resp.status = 200
            /\ (m # <<>> /\ m \notin DOMAIN pool) => res = <<>>
            /\ m = <<>> => Members(res) \subseteq Members(pool[HappyKey])
            /\ m \in DOMAIN pool => Members(res) \subseteq Members(pool[m])
            /\ (NoBudget(req) /\ m = <<>>) => res = pool[HappyKey]
            /\ (NoBudget(req) /\ m \in DOMAIN pool) => res = pool[m]

C5_Witness ==
    /\ Served("recommend_gifts")
    /\ call.args.mood = None
    /\ NoBudget(call.args)
    /\ Len(resp.body.results) = 3

\* C6 as stated: context is the folded non-empty values among mood, occasion,
\* relationship joined with ", " in that order, and it is "thoughtful" if and
\* only if all three are empty or absent.
C6_ContextOriginal ==
    Served("recommend_gifts") =>
        LET m == FoldedText(call.args.mood)
            o == FoldedText(call.args.occasion)
            r == FoldedText(call.args.relationship)
        IN  /\ resp.body.context = ExpectedContext(m, o, r)
            /\ resp.body.context = Thoughtful <=> (m = <<>> /\ o = <<>> /\ r = <<>>)

\* C6 amended: context is that join whatever the budget and the query; it is
\* "thoughtful" when all three are empty or absent, and otherwise only when
\* the one supplied value itself folds to "thoughtful".
C6_Context ==
    Served("recommend_gifts") =>
        LET m == FoldedText(call.args.mood)
            o == FoldedText(call.args.occasion)
            r == FoldedText(call.args.relationship)
            supplied == {x \in {<<1, m>>, <<2, o>>, <<3, r>>} : x[2] # <<>>}
        IN  /\ resp.body.context = ExpectedContext(m, o, r)
            /\ supplied = {} => resp.body.context = Thoughtful
            /\ (resp.body.context = Thoughtful /\ supplied # {}) =>
                  (Cardinality(supplied) = 1 /\ \A x \in supplied : x[2] = Thoughtful)

C6_Witness ==
    /\ Served("recommend_gifts")
    /\ call.args.max_budget # None
    /\ resp.body.context = <<"h","a","p","p","y",","," ","b","i","r","t","h","d","a","y",","," ","f","r","i","e","n","d","s">>

StyleNames == { <<"w","a","r","m">>, <<"r","o","m","a","n","t","i","c">>, <<"p","l","a","y","f","u","l">>, <<"g","r","a","t","e","f","u","l">>, <<"p","o","e","t","i","c">> }

\* the style of a message request, case-folded; absent or empty counts as warm
FoldedStyle(req) ==
    Lower(IF req.style = None \/ req.style = Some(<<>>) THEN <<"w","a","r","m">> ELSE Val(req.style))

\* the piece of the message that follows its first line break
StylePiece(msg) ==
    LET nl == CHOOSE i \in 1..Len(msg) : msg[i] = "\n" /\ \A j \in 1..(i - 1) : msg[j] # "\n"
    IN  <<msg[nl + 1]>>

\* C8: the style line is the sentence of the folded style when that is one
\* of the five styles and the warm sentence otherwise, so a message with an
\* unrecognized style equals the message with style "warm" on the same fields.
C8_StyleFallback ==
    Served("generate_message") =>
        LET req == call.args
            k == FoldedStyle(req)
            msg == resp.body.message
        IN  /\ k \in StyleNames => StylePiece(msg) = tones[k]
            /\ k \notin StyleNames => StylePiece(msg) = tones[<<"w","a","r","m">>]
            /\ k \notin StyleNames => msg = Message([req EXCEPT !.style = Some(<<"w","a","r","m">>)])

C8_Witness ==
    /\ Served("generate_message")
    /\ call.args.style = Some(<<"u","n","k","n","o","w","n","-","s","t","y","l","e">>)
    /\ call.args.to = Some(<<"M","i","a">>)
    /\ call.args.occasion # None

SameCallAsMemo == memo.call.op = call.op /\ memo.call.args = call.args

\* C9: whatever calls were served, the catalog is as it was loaded, and a
\* call repeated with the same input gets the same answer as before.
C9_Frame ==
    /\ FEATURED_BOXES = Catalog
    /\ SameCallAsMemo => resp = memo.resp

C9_Witness ==
    /\ Served("get_category_listing")
    /\ SameCallAsMemo
    /\ resp.status = 200
    /\ resp.body.results # <<>>

\* C10: with mood absent or empty the results come from the happy pool while
\* context is built from occasion and relationship alone; context contains
\* "happy" only if mood, occasion or relationship contains it.
C10_NoDefaultLeak ==
    Served("recommend_gifts") =>
        LET req == call.args
            m == FoldedText(req.mood)
            o == FoldedText(req.occasion)
            r == FoldedText(req.relationship)
            ctx == resp.body.context
        IN  /\ m = <<>> =>
                  /\ ctx = (IF WithSep(o, r) = <<>> THEN Thoughtful ELSE WithSep(o, r))
                  /\ Members(resp.body.results) \subseteq Members(pool[HappyKey])
                  /\ NoBudget(req) => resp.body.results = pool[HappyKey]
            /\ Contains(ctx, HappyKey) =>
                  (Contains(m, HappyKey) \/ Contains(o, HappyKey) \/ Contains(r, HappyKey))

C10_Witness ==
    /\ Served("recommend_gifts")
    /\ call.args.mood = None
    /\ resp.body.context = <<"b","i","r","t","h","d","a","y">>
    /\ Len(resp.body.results) = 3

====
